---- MODULE Spec2Model ----
(***************************************************************************)
(* A model of energy_simulation_app.py: the energy formulas, the scenario  *)
(* presets, the AI-fraction suggestion, the report table and the Streamlit *)
(* rerun loop that executes the whole script on every widget interaction.  *)
(*                                                                         *)
(* Numbers are exact rationals <<n, d>> in lowest terms with d > 0.  The   *)
(* pair <<0, 0>> stands for a raised ZeroDivisionError, which every later  *)
(* arithmetic operation propagates (the script stops at the exception).    *)
(***************************************************************************)
EXTENDS Integers, Sequences, FiniteSets, TLC

(***************************************************************************)
(* Streamlit app state: the widget values a script run reads (scenario     *)
(* selectbox, sliders, number inputs) and everything the run computes.     *)
(***************************************************************************)
VARIABLES scenario, mass_flow, Cp, delta_T, geothermal_eff, E_input,
          wasted_fraction, target_power, AI_fraction,
          Qthermal, Pgeothermal, Pwaste, Ptotal_geothermal, Eyear_geo, households_geo,
          flow_rate, waterfall_height, turbine_eff,
          Pwaterfall, Eyear_waterfall, households_waterfall,
          total_power, total_energy, total_households, df,
          trigger    \* what caused this run: "start", "scenario" or "input"

\* optimize_waste_fraction (grid search of the optimizer variant)
VARIABLES opt_pc, opt_E, opt_wf, opt_thermal, opt_eff, opt_i, best_fraction, best_total

\* households_powered called directly, with any divisor
VARIABLES hh_pc, hh_Eyear, hh_consumption, hh_result

inputvars == <<scenario, mass_flow, Cp, delta_T, geothermal_eff, E_input,
               wasted_fraction, target_power, flow_rate, waterfall_height, turbine_eff>>

outputvars == <<AI_fraction, Qthermal, Pgeothermal, Pwaste, Ptotal_geothermal, Eyear_geo,
                households_geo, Pwaterfall, Eyear_waterfall, households_waterfall,
                total_power, total_energy, total_households, df>>

appvars == <<inputvars, outputvars, trigger>>

optvars == <<opt_pc, opt_E, opt_wf, opt_thermal, opt_eff, opt_i, best_fraction, best_total>>

hhvars == <<hh_pc, hh_Eyear, hh_consumption, hh_result>>

vars == <<appvars, optvars, hhvars>>

(***************************************************************************)
(* Python arithmetic on the numbers of the script.                         *)
(***************************************************************************)
RECURSIVE GCD(_, _)
GCD(a, b) == IF b = 0 THEN a ELSE GCD(b, a % b)

Abs(x) == IF x < 0 THEN -x ELSE x

ZeroDivisionError == <<0, 0>>

IsErr(a) == a[2] = 0

\* n/d in lowest terms (d # 0)
Q(n, d) ==
    LET g == GCD(Abs(n), Abs(d))
        s == IF d < 0 THEN -1 ELSE 1
    IN  <<s * (n \div g), s * (d \div g)>>

\* an int literal
I(n) == <<n, 1>>

\* a * b
mul(a, b) ==
    IF IsErr(a) \/ IsErr(b) THEN ZeroDivisionError
    ELSE LET g1 == GCD(Abs(a[1]), b[2])
             g2 == GCD(Abs(b[1]), a[2])
         IN  IF a[1] = 0 \/ b[1] = 0 THEN <<0, 1>>
             ELSE <<(a[1] \div g1) * (b[1] \div g2), (a[2] \div g2) * (b[2] \div g1)>>

\* a + b
add(a, b) ==
    IF IsErr(a) \/ IsErr(b) THEN ZeroDivisionError
    ELSE LET g == GCD(a[2], b[2])
             l == (a[2] \div g) * b[2]
         IN  Q(a[1] * (l \div a[2]) + b[1] * (l \div b[2]), l)

\* a / b: Python's true division raises ZeroDivisionError on a zero divisor
truediv(a, b) ==
    IF IsErr(a) \/ IsErr(b) THEN ZeroDivisionError
    ELSE IF b[1] = 0 THEN ZeroDivisionError
    ELSE mul(a, Q(b[2], b[1]))

\* a < b (both numbers)
lt(a, b) ==
    LET g == GCD(a[2], b[2])
    IN  a[1] * (b[2] \div g) < b[1] * (a[2] \div g)

\* min(a, b): the first argument unless the second is strictly smaller
min2(a, b) ==
    IF IsErr(a) \/ IsErr(b) THEN ZeroDivisionError
    ELSE IF lt(b, a) THEN b ELSE a

(***************************************************************************)
(* Constants                                                               *)
(***************************************************************************)
GRAVITY == Q(981, 100)

WATER_DENSITY == I(1000)

HOURS_PER_YEAR == I(24 * 365)

DefaultConsumption == I(7200)

(***************************************************************************)
(* Functions                                                               *)
(***************************************************************************)
geothermal_thermal_power(m, c, dT) == mul(mul(m, c), dT)

geothermal_electric_power(Qth, efficiency) == mul(Qth, efficiency)

\* variant: the waste stream taken as the whole input electricity
recovered_waste_power_no_wf(E, wf, AI) == mul(E, AI)

\* variant: the AI fraction of the previous run reused
recovered_waste_power_stale(E, wf, AI) == mul(mul(E, wf), AI_fraction)

recovered_waste_power(E, wf, AI) == mul(mul(E, wf), AI)

waterfall_power(flow, height, efficiency) ==
    LET P_watts == mul(mul(mul(mul(WATER_DENSITY, GRAVITY), flow), height), efficiency)
    IN  truediv(P_watts, I(1000))

\* variant: a year of 365.25 days
annual_energy_leap(power_kw) == mul(power_kw, I(8766))

annual_energy(power_kw) == mul(power_kw, HOURS_PER_YEAR)

\* variant: a zero divisor special-cased to a value
households_powered_guarded(Eyear, consumption_per_household) ==
    IF consumption_per_household = I(0) THEN I(0)
    ELSE truediv(Eyear, consumption_per_household)

households_powered(Eyear, consumption_per_household) ==
    truediv(Eyear, consumption_per_household)

\* one row of the DataFrame: the two derived columns (lines 41-42)
report_row(src, power) ==
    [Source     |-> src,
     Power      |-> power,
     Annual     |-> mul(power, HOURS_PER_YEAR),
     Households |-> truediv(mul(power, HOURS_PER_YEAR), I(7200))]

\* variant: the first row without the recovered waste power
generate_report_df_geo_only(Pgeo, Pw, Pfall) ==
    << report_row("Geothermal + Waste", Pgeo),
       report_row("Waterfall Turbine", Pfall) >>

generate_report_df(Pgeo, Pw, Pfall) ==
    << report_row("Geothermal + Waste", add(Pgeo, Pw)),
       report_row("Waterfall Turbine", Pfall) >>

\* variant: no clamp to 1
optimize_ai_fraction_unclamped(E, wf, target) ==
    IF wf = I(0) THEN I(0)
    ELSE truediv(target, mul(E, wf))

\* variant: no guard on wasted_fraction == 0
optimize_ai_fraction_unguarded(E, wf, target) ==
    min2(I(1), truediv(target, mul(E, wf)))

optimize_ai_fraction(E, wf, target) ==
    IF wf = I(0) THEN I(0)
    ELSE min2(I(1), truediv(target, mul(E, wf)))

(***************************************************************************)
(* Values the user can give each widget (all within the widget's range).   *)
(***************************************************************************)
Scenarios == {"Custom", "Small Well", "Large Well", "Extreme High Output"}

MassFlowVals == {I(10), I(50)}

CpVals == {Q(418, 100), I(1)}

DeltaTVals == {I(150), I(200)}

GeoEffVals == {Q(12, 100), Q(15, 100)}

EInputVals == {I(1), I(100)}

WastedVals == {I(0), Q(30, 100)}

TargetVals == {I(21), I(500), I(760)}

FlowRateVals == {I(10), I(20)}

HeightVals == {I(50), I(5)}

TurbineEffVals == {Q(9, 10), Q(5, 10)}

(***************************************************************************)
(* Tab 1: scenario defaults (line 81) overridden by the preset (83-88)     *)
(***************************************************************************)
ScenarioDefaults(sc) ==
    LET base == [mass_flow |-> I(10), Cp |-> Q(418, 100), delta_T |-> I(150),
                 geothermal_eff |-> Q(12, 100), E_input |-> I(100),
                 wasted_fraction |-> Q(30, 100), AI_fraction |-> Q(70, 100)]
    IN  CASE sc = "Small Well" ->
               [base EXCEPT !.mass_flow = I(10), !.delta_T = I(150),
                            !.geothermal_eff = Q(12, 100)]
          [] sc = "Large Well" ->
               [base EXCEPT !.mass_flow = I(50), !.delta_T = I(200),
                            !.geothermal_eff = Q(12, 100)]
          [] sc = "Extreme High Output" ->
               [base EXCEPT !.mass_flow = I(100), !.delta_T = I(250),
                            !.geothermal_eff = Q(15, 100)]
          [] OTHER -> base

(***************************************************************************)
(* st.slider(label, min, max, value) on a rerun in which the user did not  *)
(* move this slider.  The widget has no key, so its identity is its        *)
(* parameters, `value` included: `value` is only what the slider shows     *)
(* when first rendered.  Same parameters as in the previous run: the       *)
(* widget keeps its stored value.  A different `value`: a new widget,      *)
(* rendered at `value` (the old one's state is discarded).                 *)
(***************************************************************************)
\* variant: a slider that always keeps its stored value
slider_sticky(prev_default, stored, default) == stored

slider(prev_default, stored, default) ==
    IF default = prev_default THEN stored ELSE default

(***************************************************************************)
(* One run of the script from the widget values it reads (lines 100-151).  *)
(* The optimizer variant and a direct call of households_powered are not   *)
(* part of this script.                                                    *)
(***************************************************************************)
Script(sc, mf, cp, dT, ge, ei, wf, tp, fr, wh, te) ==
    /\ scenario' = sc
    /\ mass_flow' = mf
    /\ Cp' = cp
    /\ delta_T' = dT
    /\ geothermal_eff' = ge
    /\ E_input' = ei
    /\ wasted_fraction' = wf
    /\ target_power' = tp
    /\ AI_fraction' = optimize_ai_fraction(E_input', wasted_fraction', target_power')
    /\ Qthermal' = geothermal_thermal_power(mass_flow', Cp', delta_T')
    /\ Pgeothermal' = geothermal_electric_power(Qthermal', geothermal_eff')
    /\ Pwaste' = recovered_waste_power(E_input', wasted_fraction', AI_fraction')
    /\ Ptotal_geothermal' = add(Pgeothermal', Pwaste')
    /\ Eyear_geo' = annual_energy(Ptotal_geothermal')
    /\ households_geo' = households_powered(Eyear_geo', DefaultConsumption)
    /\ flow_rate' = fr
    /\ waterfall_height' = wh
    /\ turbine_eff' = te
    /\ Pwaterfall' = waterfall_power(flow_rate', waterfall_height', turbine_eff')
    /\ Eyear_waterfall' = annual_energy(Pwaterfall')
    /\ households_waterfall' = households_powered(Eyear_waterfall', DefaultConsumption)
    /\ total_power' = add(Ptotal_geothermal', Pwaterfall')
    /\ total_energy' = add(Eyear_geo', Eyear_waterfall')
    /\ total_households' = add(households_geo', households_waterfall')
    /\ df' = generate_report_df(Pgeothermal', Pwaste', Pwaterfall')
    /\ UNCHANGED <<optvars, hhvars>>

\* The first run: "Custom" selected, every widget at its `value` argument.
FirstRun ==
    LET d == ScenarioDefaults("Custom")
    IN  /\ scenario = "Custom"
        /\ mass_flow = d.mass_flow
        /\ Cp = d.Cp
        /\ delta_T = d.delta_T
        /\ geothermal_eff = d.geothermal_eff
        /\ E_input = d.E_input
        /\ wasted_fraction = d.wasted_fraction
        /\ target_power = I(500)
        /\ AI_fraction = optimize_ai_fraction(E_input, wasted_fraction, target_power)
        /\ Qthermal = geothermal_thermal_power(mass_flow, Cp, delta_T)
        /\ Pgeothermal = geothermal_electric_power(Qthermal, geothermal_eff)
        /\ Pwaste = recovered_waste_power(E_input, wasted_fraction, AI_fraction)
        /\ Ptotal_geothermal = add(Pgeothermal, Pwaste)
        /\ Eyear_geo = annual_energy(Ptotal_geothermal)
        /\ households_geo = households_powered(Eyear_geo, DefaultConsumption)
        /\ flow_rate = I(10)
        /\ waterfall_height = I(50)
        /\ turbine_eff = Q(9, 10)
        /\ Pwaterfall = waterfall_power(flow_rate, waterfall_height, turbine_eff)
        /\ Eyear_waterfall = annual_energy(Pwaterfall)
        /\ households_waterfall = households_powered(Eyear_waterfall, DefaultConsumption)
        /\ total_power = add(Ptotal_geothermal, Pwaterfall)
        /\ total_energy = add(Eyear_geo, Eyear_waterfall)
        /\ total_households = add(households_geo, households_waterfall)
        /\ df = generate_report_df(Pgeothermal, Pwaste, Pwaterfall)
        /\ trigger = "start"

(***************************************************************************)
(* User interactions.  Streamlit reruns the whole script when a widget's   *)
(* value changes; the untouched widgets return their stored values, the    *)
(* three preset-seeded sliders as `slider` describes.                      *)
(***************************************************************************)
SelectScenario(sc) ==
    LET old == ScenarioDefaults(scenario)
        new == ScenarioDefaults(sc)
    IN  /\ sc # scenario
        /\ trigger' = "scenario"
        /\ Script(sc,
                  slider(old.mass_flow, mass_flow, new.mass_flow),
                  slider(old.Cp, Cp, new.Cp),
                  slider(old.delta_T, delta_T, new.delta_T),
                  slider(old.geothermal_eff, geothermal_eff, new.geothermal_eff),
                  slider(old.E_input, E_input, new.E_input),
                  slider(old.wasted_fraction, wasted_fraction, new.wasted_fraction),
                  target_power, flow_rate, waterfall_height, turbine_eff)

SetMassFlow(v) ==
    /\ v # mass_flow
    /\ trigger' = "input"
    /\ Script(scenario, v, Cp, delta_T, geothermal_eff, E_input, wasted_fraction,
              target_power, flow_rate, waterfall_height, turbine_eff)

SetCp(v) ==
    /\ v # Cp
    /\ trigger' = "input"
    /\ Script(scenario, mass_flow, v, delta_T, geothermal_eff, E_input, wasted_fraction,
              target_power, flow_rate, waterfall_height, turbine_eff)

SetDeltaT(v) ==
    /\ v # delta_T
    /\ trigger' = "input"
    /\ Script(scenario, mass_flow, Cp, v, geothermal_eff, E_input, wasted_fraction,
              target_power, flow_rate, waterfall_height, turbine_eff)

SetGeothermalEff(v) ==
    /\ v # geothermal_eff
    /\ trigger' = "input"
    /\ Script(scenario, mass_flow, Cp, delta_T, v, E_input, wasted_fraction,
              target_power, flow_rate, waterfall_height, turbine_eff)

SetEInput(v) ==
    /\ v # E_input
    /\ trigger' = "input"
    /\ Script(scenario, mass_flow, Cp, delta_T, geothermal_eff, v, wasted_fraction,
              target_power, flow_rate, waterfall_height, turbine_eff)

SetWastedFraction(v) ==
    /\ v # wasted_fraction
    /\ trigger' = "input"
    /\ Script(scenario, mass_flow, Cp, delta_T, geothermal_eff, E_input, v,
              target_power, flow_rate, waterfall_height, turbine_eff)

SetTargetPower(v) ==
    /\ v # target_power
    /\ trigger' = "input"
    /\ Script(scenario, mass_flow, Cp, delta_T, geothermal_eff, E_input, wasted_fraction,
              v, flow_rate, waterfall_height, turbine_eff)

SetFlowRate(v) ==
    /\ v # flow_rate
    /\ trigger' = "input"
    /\ Script(scenario, mass_flow, Cp, delta_T, geothermal_eff, E_input, wasted_fraction,
              target_power, v, waterfall_height, turbine_eff)

SetWaterfallHeight(v) ==
    /\ v # waterfall_height
    /\ trigger' = "input"
    /\ Script(scenario, mass_flow, Cp, delta_T, geothermal_eff, E_input, wasted_fraction,
              target_power, flow_rate, v, turbine_eff)

SetTurbineEff(v) ==
    /\ v # turbine_eff
    /\ trigger' = "input"
    /\ Script(scenario, mass_flow, Cp, delta_T, geothermal_eff, E_input, wasted_fraction,
              target_power, flow_rate, waterfall_height, v)

(***************************************************************************)
(* optimize_waste_fraction: the grid search of the optimizer variant of    *)
(* the app.  It scans GridPoints evenly spaced candidates of ai_fraction   *)
(* in [0, 1] in increasing order and keeps the first strictly greatest     *)
(* total.                                                                  *)
(***************************************************************************)
GridPoints == 101

OptEVals == {I(100), I(1)}

OptWfVals == {I(0), Q(30, 100)}

OptThermalVals == {I(6270), I(0)}

OptEffVals == {Q(12, 100), I(1)}

\* candidate number i of the grid (i = 0 .. GridPoints - 1)
candidate(i) == Q(i, GridPoints - 1)

OptIdle ==
    /\ opt_pc = "idle"
    /\ opt_E = I(100)
    /\ opt_wf = I(0)
    /\ opt_thermal = I(0)
    /\ opt_eff = I(0)
    /\ opt_i = 0
    /\ best_fraction = I(0)
    /\ best_total = I(0)

OptCalled ==
    /\ opt_pc = "scan"
    /\ opt_E \in OptEVals
    /\ opt_wf \in OptWfVals
    /\ opt_thermal \in OptThermalVals
    /\ opt_eff \in OptEffVals
    /\ opt_i = 0
    /\ best_fraction = I(0)
    /\ best_total = I(0)

ScanStep ==
    /\ opt_pc = "scan"
    /\ opt_i < GridPoints
    /\ LET total == add(geothermal_electric_power(opt_thermal, opt_eff),
                        recovered_waste_power(opt_E, opt_wf, candidate(opt_i)))
       IN  IF opt_i = 0 \/ lt(best_total, total)
           THEN /\ best_total' = total
                /\ best_fraction' = candidate(opt_i)
           ELSE UNCHANGED <<best_total, best_fraction>>
    /\ opt_i' = opt_i + 1
    /\ UNCHANGED <<opt_pc, opt_E, opt_wf, opt_thermal, opt_eff, appvars, hhvars>>

ScanReturn ==
    /\ opt_pc = "scan"
    /\ opt_i = GridPoints
    /\ opt_pc' = "done"
    /\ UNCHANGED <<opt_E, opt_wf, opt_thermal, opt_eff, opt_i, best_fraction, best_total,
                   appvars, hhvars>>

(***************************************************************************)
(* households_powered called directly with a chosen divisor.  A raised     *)
(* ZeroDivisionError ends the call without a value.                        *)
(***************************************************************************)
MaxEyearUnits == 24

EyearVals == {I(720 * k) : k \in 0..MaxEyearUnits}

ConsumptionVals == {I(0), I(1), I(3600), I(7200), I(10000)}

HHIdle ==
    /\ hh_pc = "idle"
    /\ hh_Eyear = I(0)
    /\ hh_consumption = DefaultConsumption
    /\ hh_result = I(0)

CallHouseholds(Eyear, consumption) ==
    /\ hh_Eyear' = Eyear
    /\ hh_consumption' = consumption
    /\ hh_result' = households_powered(Eyear, consumption)
    /\ hh_pc' = IF IsErr(hh_result') THEN "raised" ELSE "returned"
    /\ UNCHANGED <<appvars, optvars>>

(***************************************************************************)
(* Specifications                                                          *)
(***************************************************************************)
Init == FirstRun /\ OptIdle /\ HHIdle

Next ==
    \/ \E sc \in Scenarios : SelectScenario(sc)
    \/ \E v \in MassFlowVals : SetMassFlow(v)
    \/ \E v \in CpVals : SetCp(v)
    \/ \E v \in DeltaTVals : SetDeltaT(v)
    \/ \E v \in GeoEffVals : SetGeothermalEff(v)
    \/ \E v \in EInputVals : SetEInput(v)
    \/ \E v \in WastedVals : SetWastedFraction(v)
    \/ \E v \in TargetVals : SetTargetPower(v)
    \/ \E v \in FlowRateVals : SetFlowRate(v)
    \/ \E v \in HeightVals : SetWaterfallHeight(v)
    \/ \E v \in TurbineEffVals : SetTurbineEff(v)

Spec == Init /\ [][Next]_vars

InitOpt == FirstRun /\ OptCalled /\ HHIdle

NextOpt == ScanStep \/ ScanReturn

SpecOpt == InitOpt /\ [][NextOpt]_vars

InitHH == FirstRun /\ OptIdle /\ HHIdle

NextHH == \E Eyear \in EyearVals, consumption \in ConsumptionVals :
              CallHouseholds(Eyear, consumption)

SpecHH == InitHH /\ [][NextHH]_vars

(***************************************************************************)
(* Properties                                                              *)
(***************************************************************************)
Presets == {"Small Well", "Large Well", "Extreme High Output"}

\* a <= b
leq(a, b) == ~lt(b, a)

\* C1: after every run the AI-suggested fraction is 0 when wasted_fraction
\* is 0 and otherwise min(1, target_power / (E_input * wasted_fraction)):
\* 1 when the quotient is at least 1, else the exact quotient.
C1_AiFractionFormula ==
    LET num == target_power[1] * E_input[2] * wasted_fraction[2]
        den == target_power[2] * E_input[1] * wasted_fraction[1]
    IN  IF wasted_fraction[1] = 0 THEN AI_fraction = <<0, 1>>
        ELSE IF num >= den THEN AI_fraction = <<1, 1>>
        ELSE /\ ~IsErr(AI_fraction)
             /\ AI_fraction[1] * den = AI_fraction[2] * num

C1_Witness ==
    /\ wasted_fraction # I(0)
    /\ lt(I(0), AI_fraction)
    /\ lt(AI_fraction, I(1))
    /\ E_input = I(100)

\* C2: a transition that selects a named preset sets mass_flow, delta_T and
\* geothermal_eff to that preset's table values and leaves Cp, E_input,
\* wasted_fraction and the AI fraction as they were.
C2_PresetSetsTableValues ==
    [][ (scenario' # scenario /\ scenario' \in Presets) =>
          /\ mass_flow' = (CASE scenario' = "Small Well" -> I(10)
                             [] scenario' = "Large Well" -> I(50)
                             [] OTHER -> I(100))
          /\ delta_T' = (CASE scenario' = "Small Well" -> I(150)
                           [] scenario' = "Large Well" -> I(200)
                           [] OTHER -> I(250))
          /\ geothermal_eff' = (CASE scenario' = "Extreme High Output" -> Q(15, 100)
                                  [] OTHER -> Q(12, 100))
          /\ Cp' = Cp
          /\ E_input' = E_input
          /\ wasted_fraction' = wasted_fraction
          /\ AI_fraction' = AI_fraction ]_vars

\* C3: with mass_flow 10, Cp 4.18, delta_T 150, efficiency 0.12, input
\* electricity 100, wasted fraction 0.3 and AI fraction 0.7 the geothermal
\* path gives 6270, 752.4, 21, 773.4 kW and 6,774,984 kWh; with flow 10,
\* height 50 and efficiency 0.9 the waterfall gives 4414.5 kW and
\* 38,671,020 kWh; the combined power is 5187.9 kW.
C3_EndToEnd ==
    ( /\ mass_flow = I(10) /\ Cp = Q(418, 100) /\ delta_T = I(150)
      /\ geothermal_eff = Q(12, 100) /\ E_input = I(100)
      /\ wasted_fraction = Q(3, 10) /\ AI_fraction = Q(7, 10)
      /\ flow_rate = I(10) /\ waterfall_height = I(50) /\ turbine_eff = Q(9, 10) )
    => /\ Qthermal = I(6270)
       /\ Pgeothermal = Q(7524, 10)
       /\ Pwaste = I(21)
       /\ Ptotal_geothermal = Q(7734, 10)
       /\ Eyear_geo = I(6774984)
       /\ Pwaterfall = Q(44145, 10)
       /\ Eyear_waterfall = I(38671020)
       /\ total_power = Q(51879, 10)

C3_Witness ==
    /\ mass_flow = I(10) /\ Cp = Q(418, 100) /\ delta_T = I(150)
    /\ geothermal_eff = Q(12, 100) /\ E_input = I(100)
    /\ wasted_fraction = Q(3, 10) /\ AI_fraction = Q(7, 10)
    /\ flow_rate = I(10) /\ waterfall_height = I(50) /\ turbine_eff = Q(9, 10)
    /\ target_power = I(21)

\* C4: the report has exactly two rows, Geothermal + Waste then Waterfall
\* Turbine; each row's annual energy is its power times 8760 and its
\* households are its annual energy over 7200; the displayed totals of
\* power, annual energy and households are the sums of the two rows.
C4_ReportRowsAndTotals ==
    /\ Len(df) = 2
    /\ df[1].Source = "Geothermal + Waste"
    /\ df[2].Source = "Waterfall Turbine"
    /\ df[1].Power = add(Pgeothermal, Pwaste)
    /\ df[2].Power = Pwaterfall
    /\ \A i \in 1..2 :
          /\ df[i].Annual = mul(df[i].Power, I(8760))
          /\ mul(df[i].Households, I(7200)) = df[i].Annual
    /\ total_power = add(df[1].Power, df[2].Power)
    /\ total_energy = add(df[1].Annual, df[2].Annual)
    /\ total_households = add(df[1].Households, df[2].Households)

C4_Witness ==
    /\ trigger = "input"
    /\ Pwaste = I(21)
    /\ flow_rate = I(20)
    /\ Len(df) = 2
    /\ total_households = add(df[1].Households, df[2].Households)

\* C5 as claimed: a call of households_powered with a per-household
\* consumption of zero returns a value instead of raising.
C5_ZeroDivisorReturnsValue ==
    (hh_pc # "idle" /\ hh_consumption = I(0)) => hh_pc = "returned"

\* C5 as the code behaves: households_powered does not special-case the
\* divisor; with a zero consumption the division raises ZeroDivisionError,
\* and with any other consumption it returns the exact quotient.
C5_ZeroDivisorRaises ==
    hh_pc # "idle" =>
        IF hh_consumption = I(0)
        THEN hh_pc = "raised" /\ hh_result = ZeroDivisionError
        ELSE hh_pc = "returned" /\ mul(hh_result, hh_consumption) = hh_Eyear

C5_Witness ==
    /\ hh_pc = "raised"
    /\ hh_consumption = I(0)
    /\ hh_Eyear = I(7200)

\* C6: the grid search visits all 101 candidates, and when wasted_fraction
\* is 0 it returns fraction 0 and a total of thermal_power * geo_efficiency.
C6_DegenerateScan ==
    opt_pc = "done" =>
        /\ opt_i = 101
        /\ opt_wf = I(0) =>
              /\ best_fraction = I(0)
              /\ best_total = mul(opt_thermal, opt_eff)

C6_Witness ==
    /\ opt_pc = "done"
    /\ opt_wf = I(0)
    /\ opt_thermal = I(6270)
    /\ best_total = Q(7524, 10)

\* C7: whenever some fraction in [0, 1] attains the target
\* (Pgeothermal <= target_power <= Pgeothermal + E_input * wasted_fraction),
\* the total geothermal + waste power of the run equals target_power.
C7_SuggestionReachesTarget ==
    ( /\ leq(Pgeothermal, target_power)
      /\ leq(target_power, add(Pgeothermal, mul(E_input, wasted_fraction))) )
    => Ptotal_geothermal = target_power

\* C8 as claimed: selecting Custom leaves mass_flow, delta_T and
\* geothermal_eff at the values they had immediately before.
C8_CustomRetainsSliders ==
    [][ (scenario # "Custom" /\ scenario' = "Custom") =>
          /\ mass_flow' = mass_flow
          /\ delta_T' = delta_T
          /\ geothermal_eff' = geothermal_eff ]_vars

\* C8 as the code behaves: selecting Custom seeds the three sliders with
\* the fixed defaults 10 / 150 / 0.12; a slider keeps its value only when
\* the scenario being left seeded it with the same default, otherwise it
\* is reset to the fixed default.
C8_CustomReseedsSliders ==
    [][ (scenario # "Custom" /\ scenario' = "Custom") =>
          /\ mass_flow' = IF scenario = "Small Well" THEN mass_flow ELSE I(10)
          /\ delta_T' = IF scenario = "Small Well" THEN delta_T ELSE I(150)
          /\ geothermal_eff' = IF scenario \in {"Small Well", "Large Well"}
                               THEN geothermal_eff ELSE Q(12, 100) ]_vars

C8_Witness ==
    /\ trigger = "scenario"
    /\ scenario = "Custom"
    /\ geothermal_eff = Q(15, 100)
    /\ mass_flow = I(10)

\* C9: after any history every output of the last run is determined by
\* the current input values alone.
C9_OutputsFromInputsOnly ==
    LET ai   == IF wasted_fraction = I(0) THEN I(0)
                ELSE min2(I(1), truediv(target_power, mul(E_input, wasted_fraction)))
        qth  == mul(mul(mass_flow, Cp), delta_T)
        pgeo == mul(qth, geothermal_eff)
        pw   == mul(mul(E_input, wasted_fraction), ai)
        pf   == truediv(mul(mul(mul(mul(I(1000), Q(981, 100)), flow_rate),
                                waterfall_height), turbine_eff), I(1000))
        yr(x) == mul(x, I(8760))
        hh(x) == truediv(x, I(7200))
        row(n, x) == [Source |-> n, Power |-> x, Annual |-> yr(x),
                      Households |-> hh(yr(x))]
    IN  /\ AI_fraction = ai
        /\ Qthermal = qth
        /\ Pgeothermal = pgeo
        /\ Pwaste = pw
        /\ Ptotal_geothermal = add(pgeo, pw)
        /\ Eyear_geo = yr(add(pgeo, pw))
        /\ households_geo = hh(yr(add(pgeo, pw)))
        /\ Pwaterfall = pf
        /\ Eyear_waterfall = yr(pf)
        /\ households_waterfall = hh(yr(pf))
        /\ total_power = add(add(pgeo, pw), pf)
        /\ total_energy = add(yr(add(pgeo, pw)), yr(pf))
        /\ total_households = add(hh(yr(add(pgeo, pw))), hh(yr(pf)))
        /\ df = << row("Geothermal + Waste", add(pgeo, pw)),
                   row("Waterfall Turbine", pf) >>

C9_Witness ==
    /\ trigger = "scenario"
    /\ scenario = "Custom"
    /\ mass_flow = I(10) /\ Cp = Q(418, 100) /\ delta_T = I(150)
    /\ geothermal_eff = Q(12, 100) /\ E_input = I(100)
    /\ wasted_fraction = Q(3, 10) /\ target_power = I(500)
    /\ flow_rate = I(10) /\ waterfall_height = I(50) /\ turbine_eff = Q(9, 10)
    /\ total_power = Q(51969, 10)

\* C10: in every run optimize_ai_fraction raises no ZeroDivisionError and
\* returns a fraction in [0, 1], and the recovered waste power lies between
\* 0 and E_input * wasted_fraction.
C10_FractionInUnitInterval ==
    /\ ~IsErr(AI_fraction)
    /\ leq(I(0), AI_fraction)
    /\ leq(AI_fraction, I(1))
    /\ ~IsErr(Pwaste)
    /\ leq(I(0), Pwaste)
    /\ leq(Pwaste, mul(E_input, wasted_fraction))

C10_Witness ==
    /\ wasted_fraction = I(0)
    /\ AI_fraction = I(0)
    /\ Pwaste = I(0)
    /\ E_input = I(1)

====
